---- MODULE Spec2Model ----
(***************************************************************************)
(* Model of the box packer (src/app.py): the session's item list, the     *)
(* sidebar's box dimensions, and the "Calculate Packing (Auto-Optimize)"  *)
(* handler, which runs run_packing_simulation under three sort keys and   *)
(* displays the best attempt.                                              *)
(*                                                                         *)
(* The placement itself is done by the py3dbp package the program imports *)
(* (Packer, Bin, Item: src/app.py line 3); Packer.pack, Bin.put_item and  *)
(* the intersection test are modelled as that package computes them.      *)
(*                                                                         *)
(* Numbers.  The sidebar's number inputs are entered in tenths: the state *)
(* keeps an input 0.3 as the integer 3 and the program's value of it is   *)
(* the double InputFloat(3).  The program's own arithmetic (the sort keys, *)
(* the packed volume, analyze_failure) is in doubles, modelled bit for    *)
(* bit; py3dbp's is in Decimals quantised to 3 places, kept as integers   *)
(* in thousandths.                                                         *)
(* An item's name and colour do not influence any step and are left out;  *)
(* an Item's name is the index i of f"{name}-{i}".                         *)
(***************************************************************************)
EXTENDS Integers, Sequences, FiniteSets, TLC

\* ---------------------------------------------------------------- bounds
MaxItems == 3      \* longest item list of the session
MaxQty == 2        \* largest quantity entered in the sidebar

\* Item dimensions entered in the sidebar (L, W, H), in tenths.
ItemShapes == { <<2, 3, 4>>, <<2, 2, 6>> }

\* The box inputs of a new session (value=12.0 of box_l, box_w, box_h), in
\* tenths.
DefaultBox == << 120, 120, 120 >>

\* The values the three box inputs (box_l, box_w, box_h) are set to, in tenths.
BoxValues == << { 2, 120 }, { 5, 6, 120 }, { 4, 120 } >>

\* ------------------------------------------------------ program constants
MaxWeight == 999999999   \* Bin('MainBox', ..., 999999999)
ItemWeight == 1          \* Item(..., 1)

VARIABLES
    items_to_pack,   \* st.session_state.items_to_pack: Seq of [l, w, h], in tenths
    box,             \* <<box_l, box_w, box_h>>, in tenths
    pc,              \* position in the Calculate handler ("idle": between reruns)
    run,             \* which strategy's simulation is running: 1 (A), 2 (B), 3 (C)
    sorted_items,    \* run_packing_simulation's sorted_items
    packer,          \* run_packing_simulation's packer: [bin, items]
    k,               \* Packer.pack's loop position in packer.items
    results,         \* the (Packer, FailCount, Volume, Name) tuples, in run order
    winner,          \* <<>> or <<results[0] after results.sort>>
    reasons          \* the displayed failure reasons of the winner's unfitted items

vars == << items_to_pack, box, pc, run, sorted_items, packer, k, results,
           winner, reasons >>

\* ------------------------------------------------- unbounded naturals
\* A natural number as its digits in base 2^15, least significant first,
\* without leading zero digits (zero is <<>>).
BASE == 128 * 256

RECURSIVE Pow2(_)
Pow2(n) == IF n = 0 THEN 1 ELSE 2 * Pow2(n - 1)

RECURSIVE BNorm(_)
BNorm(a) ==
    IF a = <<>> THEN <<>>
    ELSE IF a[Len(a)] = 0 THEN BNorm(SubSeq(a, 1, Len(a) - 1))
    ELSE a

RECURSIVE BFromInt(_)
BFromInt(n) == IF n = 0 THEN <<>> ELSE << n % BASE >> \o BFromInt(n \div BASE)

RECURSIVE BToInt(_)
BToInt(a) == IF a = <<>> THEN 0 ELSE a[1] + BASE * BToInt(Tail(a))

Digit(a, i) == IF i <= Len(a) THEN a[i] ELSE 0

RECURSIVE BAddFrom(_, _, _, _)
BAddFrom(a, b, i, carry) ==
    IF i > Len(a) /\ i > Len(b)
    THEN IF carry = 0 THEN <<>> ELSE << carry >>
    ELSE LET t == Digit(a, i) + Digit(b, i) + carry
         IN  << t % BASE >> \o BAddFrom(a, b, i + 1, t \div BASE)

BAdd(a, b) == BAddFrom(a, b, 1, 0)

\* a - b, for a >= b.
RECURSIVE BSubFrom(_, _, _, _)
BSubFrom(a, b, i, borrow) ==
    IF i > Len(a) THEN <<>>
    ELSE LET t == Digit(a, i) - Digit(b, i) - borrow
         IN  IF t < 0
             THEN << t + BASE >> \o BSubFrom(a, b, i + 1, 1)
             ELSE << t >> \o BSubFrom(a, b, i + 1, 0)

BSub(a, b) == BNorm(BSubFrom(a, b, 1, 0))

\* -1, 0 or 1 as a < b, a = b or a > b.
RECURSIVE BCmpFrom(_, _, _)
BCmpFrom(a, b, i) ==
    IF i = 0 THEN 0
    ELSE IF a[i] < b[i] THEN -1
    ELSE IF a[i] > b[i] THEN 1
    ELSE BCmpFrom(a, b, i - 1)

BCmp(a, b) ==
    IF Len(a) < Len(b) THEN -1
    ELSE IF Len(a) > Len(b) THEN 1
    ELSE BCmpFrom(a, b, Len(a))

\* a * m, for a digit-sized m.
RECURSIVE BMulSmallFrom(_, _, _, _)
BMulSmallFrom(a, m, i, carry) ==
    IF i > Len(a)
    THEN IF carry = 0 THEN <<>> ELSE << carry >>
    ELSE LET t == a[i] * m + carry
         IN  << t % BASE >> \o BMulSmallFrom(a, m, i + 1, t \div BASE)

BMulSmall(a, m) == BNorm(BMulSmallFrom(a, m, 1, 0))

Zeros(n) == [ i \in 1..n |-> 0 ]

RECURSIVE BMulFrom(_, _, _)
BMulFrom(a, b, i) ==
    IF i > Len(b) THEN <<>>
    ELSE BAdd(Zeros(i - 1) \o BMulSmall(a, b[i]), BMulFrom(a, b, i + 1))

BMul(a, b) == BNorm(BMulFrom(a, b, 1))

\* Quotient and remainder of a by a small d, from the top digit down.
RECURSIVE BDivSmallFrom(_, _, _, _)
BDivSmallFrom(a, d, i, rem) ==
    IF i = 0 THEN [ q |-> <<>>, r |-> rem ]
    ELSE LET t == rem * BASE + a[i]
             rest == BDivSmallFrom(a, d, i - 1, t % d)
         IN  [ q |-> rest.q \o << t \div d >>, r |-> rest.r ]

BDivSmall(a, d) ==
    LET x == BDivSmallFrom(a, d, Len(a), 0)
    IN  [ q |-> BNorm(x.q), r |-> x.r ]

BShl(a, s) ==
    IF a = <<>> THEN <<>>
    ELSE Zeros(s \div 15) \o BMulSmall(a, Pow2(s % 15))

BShr(a, s) ==
    IF s \div 15 >= Len(a) THEN <<>>
    ELSE BDivSmall(SubSeq(a, s \div 15 + 1, Len(a)), Pow2(s % 15)).q

RECURSIVE IntBits(_)
IntBits(n) == IF n = 0 THEN 0 ELSE 1 + IntBits(n \div 2)

BBitLen(a) == IF a = <<>> THEN 0 ELSE 15 * (Len(a) - 1) + IntBits(a[Len(a)])

BOdd(a) == a # <<>> /\ a[1] % 2 = 1

BOne == << 1 >>

MinInt(x, y) == IF x <= y THEN x ELSE y

Abs(x) == IF x < 0 THEN -x ELSE x

\* n / 2^s rounded to the nearest natural, ties to even; `sticky` says that
\* n itself was cut off below (the true value is a little more than n).
RoundShift(n, s, sticky) ==
    IF s = 0 THEN n
    ELSE LET q == BShr(n, s)
             c == BCmp(BSub(n, BShl(q, s)), BShl(BOne, s - 1))
         IN  IF c > 0 \/ (c = 0 /\ (sticky \/ BOdd(q))) THEN BAdd(q, BOne) ELSE q

\* ------------------------------------------------- IEEE 754 doubles
\* A non-negative double: m * 2^e with m of exactly 53 bits, or zero.
FZero == [ m |-> <<>>, e |-> 0 ]

\* The double nearest to n * 2^e (round to nearest, ties to even).
FRound(n, e, sticky) ==
    LET len == BBitLen(n)
    IN  IF len <= 53
        THEN [ m |-> BShl(n, 53 - len), e |-> e - (53 - len) ]
        ELSE LET q == RoundShift(n, len - 53, sticky)
             IN  IF BBitLen(q) > 53
                 THEN [ m |-> BShr(q, 1), e |-> e + (len - 53) + 1 ]
                 ELSE [ m |-> q, e |-> e + (len - 53) ]

\* The double nearest to the fraction n / d (d a small positive integer).
FFromRatio(n, d) ==
    IF n = 0 THEN FZero
    ELSE LET x == BDivSmall(BShl(BFromInt(n), 75), d)
         IN  FRound(x.q, -75, x.r # 0)

FMul(a, b) ==
    IF a.m = <<>> \/ b.m = <<>> THEN FZero
    ELSE FRound(BMul(a.m, b.m), a.e + b.e, FALSE)

FAdd(a, b) ==
    IF a.m = <<>> THEN b
    ELSE IF b.m = <<>> THEN a
    ELSE LET e == MinInt(a.e, b.e)
         IN  FRound(BAdd(BShl(a.m, a.e - e), BShl(b.m, b.e - e)), e, FALSE)

FLess(a, b) ==
    IF b.m = <<>> THEN FALSE
    ELSE IF a.m = <<>> THEN TRUE
    ELSE LET e == MinInt(a.e, b.e)
         IN  BCmp(BShl(a.m, a.e - e), BShl(b.m, b.e - e)) < 0

\* Decimal(f).quantize(Decimal('1.000')) in thousandths: f * 1000 rounded to
\* the nearest integer, ties to even (f's exponent is negative here).
Quantize3(f) ==
    IF f.m = <<>> THEN 0
    ELSE BToInt(RoundShift(BMulSmall(f.m, 1000), -f.e, FALSE))

\* The value of a number input set to n tenths.
InputFloat(n) == FFromRatio(n, 10)

\* float(d) of a Decimal d held in thousandths.
DecimalToFloat(d) == FFromRatio(d, 1000)

\* max(a, b, c) of three doubles.
Max3(a, b, c) ==
    LET m == IF FLess(a, b) THEN b ELSE a IN IF FLess(m, c) THEN c ELSE m

\* ---------------------------------------------------------------- py3dbp
START_POSITION == <<0, 0, 0>>

Item(name, width, height, depth, weight) ==
    [ name |-> name, width |-> width, height |-> height, depth |-> depth,
      weight |-> weight, rotation_type |-> 0, position |-> START_POSITION ]

Bin(width, height, depth, max_weight) ==
    [ width |-> width, height |-> height, depth |-> depth,
      max_weight |-> max_weight, items |-> <<>>, unfitted_items |-> <<>> ]

\* Item.format_numbers / Bin.format_numbers: the doubles the program passed
\* become Decimals with 3 places (thousandths); the integer weights are kept.
FormatItem(it) ==
    [it EXCEPT !.width = Quantize3(@), !.height = Quantize3(@),
               !.depth = Quantize3(@)]

FormatBin(bin) ==
    [bin EXCEPT !.width = Quantize3(@), !.height = Quantize3(@),
                !.depth = Quantize3(@)]

\* Item.get_dimension: the item's dimensions under its rotation type.
GetDimension(it) ==
    CASE it.rotation_type = 0 -> << it.width, it.height, it.depth >>   \* RT_WHD
      [] it.rotation_type = 1 -> << it.height, it.width, it.depth >>   \* RT_HWD
      [] it.rotation_type = 2 -> << it.height, it.depth, it.width >>   \* RT_HDW
      [] it.rotation_type = 3 -> << it.depth, it.height, it.width >>   \* RT_DHW
      [] it.rotation_type = 4 -> << it.depth, it.width, it.height >>   \* RT_DWH
      [] it.rotation_type = 5 -> << it.width, it.depth, it.height >>   \* RT_WDH

\* Item.get_volume: the Decimal product width * height * depth, quantised to
\* 3 places, half to even; the result in thousandths, as an unbounded natural.
GetVolume(it) ==
    LET p == BMul(BMul(BFromInt(it.width), BFromInt(it.height)), BFromInt(it.depth))
        lo == BDivSmall(p, 1000)
        hi == BDivSmall(lo.q, 1000)
        r == hi.r * 1000 + lo.r
    IN  IF 2 * r > 1000000 \/ (2 * r = 1000000 /\ BOdd(hi.q))
        THEN BAdd(hi.q, BOne) ELSE hi.q

\* rect_intersect: the distance of the two centres on each axis of the plane
\* is less than half the sum of the extents.  Doubled to stay in the integers.
RectIntersect(item1, item2, x, y) ==
    LET d1 == GetDimension(item1)
        d2 == GetDimension(item2)
        cx1 == 2 * item1.position[x] + d1[x]
        cy1 == 2 * item1.position[y] + d1[y]
        cx2 == 2 * item2.position[x] + d2[x]
        cy2 == 2 * item2.position[y] + d2[y]
        ix == Abs(cx1 - cx2)
        iy == Abs(cy1 - cy2)
    IN  ix < d1[x] + d2[x] /\ iy < d1[y] + d2[y]

Intersect(item1, item2) ==
    /\ RectIntersect(item1, item2, 1, 2)
    /\ RectIntersect(item1, item2, 2, 3)
    /\ RectIntersect(item1, item2, 1, 3)

RECURSIVE SumWeights(_)
SumWeights(its) ==
    IF its = <<>> THEN 0 ELSE its[1].weight + SumWeights(Tail(its))

GetTotalWeight(bin) == SumWeights(bin.items)

\* put_item without the loop over the items already in the bin.
RECURSIVE PutItemFromNoCollision(_, _, _, _)
PutItemFromNoCollision(bin, item, pivot, i) ==
    IF i > 5
    THEN [ fit |-> FALSE, bin |-> bin,
           item |-> [item EXCEPT !.rotation_type = 5] ]
    ELSE
      LET it == [item EXCEPT !.rotation_type = i, !.position = pivot]
          dimension == GetDimension(it)
      IN  IF \/ bin.width < pivot[1] + dimension[1]
             \/ bin.height < pivot[2] + dimension[2]
             \/ bin.depth < pivot[3] + dimension[3]
          THEN PutItemFromNoCollision(bin, item, pivot, i + 1)
          ELSE IF GetTotalWeight(bin) + it.weight > bin.max_weight
          THEN [ fit |-> FALSE, bin |-> bin, item |-> it ]
          ELSE [ fit |-> TRUE,
                 bin |-> [bin EXCEPT !.items = Append(@, it)],
                 item |-> it ]

\* put_item comparing the bin with the pivot alone, the item's extent forgotten.
RECURSIVE PutItemFromPivotOnly(_, _, _, _)
PutItemFromPivotOnly(bin, item, pivot, i) ==
    IF i > 5
    THEN [ fit |-> FALSE, bin |-> bin,
           item |-> [item EXCEPT !.rotation_type = 5] ]
    ELSE
      LET it == [item EXCEPT !.rotation_type = i, !.position = pivot]
      IN  IF \/ bin.width < pivot[1]
             \/ bin.height < pivot[2]
             \/ bin.depth < pivot[3]
          THEN PutItemFromPivotOnly(bin, item, pivot, i + 1)
          ELSE IF \E j \in 1..Len(bin.items) : Intersect(bin.items[j], it)
          THEN [ fit |-> FALSE, bin |-> bin,
                 item |-> [it EXCEPT !.position = item.position] ]
          ELSE IF GetTotalWeight(bin) + it.weight > bin.max_weight
          THEN [ fit |-> FALSE, bin |-> bin, item |-> it ]
          ELSE [ fit |-> TRUE,
                 bin |-> [bin EXCEPT !.items = Append(@, it)],
                 item |-> it ]

\* Bin.put_item's loop over the rotation types, from rotation i on.  `item`
\* is the item as the caller passed it (its position is valid_item_position).
\* The first rotation that is inside the bin decides: the loop returns there.
\* The result's item is the Item object as put_item leaves it.
RECURSIVE PutItemFrom(_, _, _, _)
PutItemFrom(bin, item, pivot, i) ==
    IF i > 5
    THEN [ fit |-> FALSE, bin |-> bin,
           item |-> [item EXCEPT !.rotation_type = 5] ]
    ELSE
      LET it == [item EXCEPT !.rotation_type = i, !.position = pivot]
          dimension == GetDimension(it)
      IN  IF \/ bin.width < pivot[1] + dimension[1]
             \/ bin.height < pivot[2] + dimension[2]
             \/ bin.depth < pivot[3] + dimension[3]
          THEN PutItemFrom(bin, item, pivot, i + 1)
          ELSE IF \E j \in 1..Len(bin.items) : Intersect(bin.items[j], it)
          THEN [ fit |-> FALSE, bin |-> bin,
                 item |-> [it EXCEPT !.position = item.position] ]
          ELSE IF GetTotalWeight(bin) + it.weight > bin.max_weight
          THEN [ fit |-> FALSE, bin |-> bin, item |-> it ]
          ELSE [ fit |-> TRUE,
                 bin |-> [bin EXCEPT !.items = Append(@, it)],
                 item |-> it ]

PutItem(bin, item, pivot) == PutItemFrom(bin, item, pivot, 0)

\* Packer.pack_to_bin's pivot of item ib on an axis (0 width, 1 height, 2 depth).
Pivot(ib, axis) ==
    LET d == GetDimension(ib)
    IN  CASE axis = 0 -> << ib.position[1] + d[1], ib.position[2], ib.position[3] >>
          [] axis = 1 -> << ib.position[1], ib.position[2] + d[2], ib.position[3] >>
          [] axis = 2 -> << ib.position[1], ib.position[2], ib.position[3] + d[3] >>

\* Packer.pack_to_bin's two loops: axis 0..2, then the items in the bin.
RECURSIVE TryPivots(_, _, _, _)
TryPivots(bin, item, axis, j) ==
    IF axis > 2 THEN [ fit |-> FALSE, bin |-> bin, item |-> item ]
    ELSE IF j > Len(bin.items) THEN TryPivots(bin, item, axis + 1, 1)
    ELSE LET r == PutItem(bin, item, Pivot(bin.items[j], axis))
         IN  IF r.fit THEN r ELSE TryPivots(bin, r.item, axis, j + 1)

\* pack_to_bin that forgets an item it could not place.
PackToBinDropsUnfitted(bin, item) ==
    LET r == IF bin.items = <<>>
             THEN PutItem(bin, item, START_POSITION)
             ELSE TryPivots(bin, item, 0, 1)
    IN  [ bin |-> IF r.fit THEN r.bin ELSE bin, item |-> r.item ]

\* Packer.pack_to_bin: the bin and the Item object as the call leaves them
\* (the bin's lists hold that same object).
PackToBin(bin, item) ==
    LET r == IF bin.items = <<>>
             THEN PutItem(bin, item, START_POSITION)
             ELSE TryPivots(bin, item, 0, 1)
    IN  [ bin |-> IF r.fit THEN r.bin
                  ELSE [bin EXCEPT !.unfitted_items = Append(@, r.item)],
          item |-> r.item ]

\* Packer.pack's self.items.sort(key=get_volume, reverse=bigger_first), with
\* the default bigger_first=False: stable, smallest Decimal volume first.
RECURSIVE InsertByVolume(_, _)
InsertByVolume(s, x) ==
    IF s = <<>> THEN << x >>
    ELSE IF BCmp(GetVolume(x), GetVolume(s[1])) < 0 THEN << x >> \o s
    ELSE << s[1] >> \o InsertByVolume(Tail(s), x)

RECURSIVE SortByVolume(_)
SortByVolume(its) ==
    IF its = <<>> THEN <<>>
    ELSE InsertByVolume(SortByVolume(SubSeq(its, 1, Len(its) - 1)), its[Len(its)])

\* Packer.pack's loop over the items, on the bin alone.
RECURSIVE PackAll(_, _)
PackAll(bin, its) ==
    IF its = <<>> THEN bin ELSE PackAll(PackToBin(bin, its[1]).bin, Tail(its))

\* ------------------------------------------------------------ src/app.py
\* A stable sort of a sequence of [key, val] pairs with double keys (sorted /
\* list.sort): ascending, or with reverse=True descending; equal keys keep
\* their order.
Before(a, b, reverse) == IF reverse THEN FLess(b, a) ELSE FLess(a, b)

RECURSIVE InsertKeyed(_, _, _)
InsertKeyed(s, x, reverse) ==
    IF s = <<>> THEN << x >>
    ELSE IF Before(x.key, s[1].key, reverse) THEN << x >> \o s
    ELSE << s[1] >> \o InsertKeyed(Tail(s), x, reverse)

RECURSIVE SortKeyed(_, _)
SortKeyed(s, reverse) ==
    IF s = <<>> THEN <<>>
    ELSE InsertKeyed(SortKeyed(SubSeq(s, 1, Len(s) - 1), reverse), s[Len(s)], reverse)

Vals(s) == [ i \in 1..Len(s) |-> s[i].val ]

TooLarge == "Item is too large for box (Dimensions mismatch)"
NoSpace == "Not enough remaining space (or fragmentation)"

\* sorted([float(a), float(b), float(c)]) of three Decimals.
Sorted3(a, b, c) ==
    Vals(SortKeyed(<< [key |-> DecimalToFloat(a), val |-> DecimalToFloat(a)],
                      [key |-> DecimalToFloat(b), val |-> DecimalToFloat(b)],
                      [key |-> DecimalToFloat(c), val |-> DecimalToFloat(c)] >>,
                   FALSE))

\* analyze_failure comparing the item's dimensions as entered, unsorted.
analyze_failure_unsorted(bin_obj, item_obj) ==
    LET bin_dims == Sorted3(bin_obj.width, bin_obj.height, bin_obj.depth)
        item_dims == << DecimalToFloat(item_obj.width),
                        DecimalToFloat(item_obj.height),
                        DecimalToFloat(item_obj.depth) >>
    IN  IF \E i \in 1..3 : FLess(bin_dims[i], item_dims[i]) THEN TooLarge ELSE NoSpace

analyze_failure(bin_obj, item_obj) ==
    LET bin_dims == Sorted3(bin_obj.width, bin_obj.height, bin_obj.depth)
        item_dims == Sorted3(item_obj.width, item_obj.height, item_obj.depth)
    IN  IF \E i \in 1..3 : FLess(bin_dims[i], item_dims[i]) THEN TooLarge ELSE NoSpace

\* The three strategies' key functions (the lambdas of the Calculate handler),
\* on the doubles of the list entry.
KeyVolume(x) == FMul(FMul(InputFloat(x.l), InputFloat(x.w)), InputFloat(x.h))
KeyLongest(x) == Max3(InputFloat(x.l), InputFloat(x.w), InputFloat(x.h))
KeyArea(x) == FMul(InputFloat(x.l), InputFloat(x.w))

SortKey(strategy, x) ==
    CASE strategy = 1 -> KeyVolume(x)
      [] strategy = 2 -> KeyLongest(x)
      [] strategy = 3 -> KeyArea(x)

StrategyName(strategy) ==
    CASE strategy = 1 -> "Volume Sort"
      [] strategy = 2 -> "Longest-Side Sort"
      [] strategy = 3 -> "Area Sort"

\* sorted(items, key=sort_key_func, reverse=True)
SortedItems(items, strategy) ==
    Vals(SortKeyed([ i \in 1..Len(items) |->
                        [key |-> SortKey(strategy, items[i]), val |-> items[i]] ],
                   TRUE))

\* Packer(); packer.add_bin(Bin('MainBox', box_l, box_w, box_h, 999999999))
NewPacker(b) ==
    [ bin |-> Bin(InputFloat(b[1]), InputFloat(b[2]), InputFloat(b[3]), MaxWeight),
      items |-> <<>> ]

\* The loop of packer.add_item(Item(f"{name}-{i}", l, w, h, 1)) over sorted_items.
AddedItems(p, sorted) ==
    [p EXCEPT !.items = @ \o [ i \in 1..Len(sorted) |->
        Item(i - 1, InputFloat(sorted[i].l), InputFloat(sorted[i].w),
             InputFloat(sorted[i].h), ItemWeight) ]]

\* packer.pack() up to its loop: the numbers are formatted, the items sorted.
Formatted(p) ==
    [ bin |-> FormatBin(p.bin),
      items |-> SortByVolume([ i \in 1..Len(p.items) |-> FormatItem(p.items[i]) ]) ]

\* packed_volume: 0.0, then += float(width) * float(height) * float(depth)
\* for the items of the box in turn.
RECURSIVE PackedVolumeFrom(_, _)
PackedVolumeFrom(its, acc) ==
    IF its = <<>> THEN acc
    ELSE PackedVolumeFrom(Tail(its),
            FAdd(acc, FMul(FMul(DecimalToFloat(its[1].width),
                                DecimalToFloat(its[1].height)),
                           DecimalToFloat(its[1].depth))))

PackedVolume(its) == PackedVolumeFrom(its, FZero)

\* The comparison that also puts an equal key first: a later attempt with an
\* equal score moves ahead of an earlier one.
ResultKeyLessOrEqual(a, b) ==
    \/ a.fail < b.fail
    \/ a.fail = b.fail /\ ~ FLess(a.vol, b.vol)

\* results.sort(key=lambda x: (x[1], -x[2])): tuples compare lexicographically;
\* -a.vol < -b.vol is b.vol < a.vol.
ResultKeyLess(a, b) ==
    \/ a.fail < b.fail
    \/ a.fail = b.fail /\ FLess(b.vol, a.vol)

RECURSIVE InsertResult(_, _)
InsertResult(s, x) ==
    IF s = <<>> THEN << x >>
    ELSE IF ResultKeyLess(x, s[1]) THEN << x >> \o s
    ELSE << s[1] >> \o InsertResult(Tail(s), x)

RECURSIVE SortResults(_)
SortResults(s) ==
    IF s = <<>> THEN <<>>
    ELSE InsertResult(SortResults(SubSeq(s, 1, Len(s) - 1)), s[Len(s)])

NoPacker == [ bin |-> Bin(FZero, FZero, FZero, 0), items |-> <<>> ]

\* ------------------------------------------------------------------ state
Init ==
    /\ items_to_pack = <<>>
    /\ box = DefaultBox
    /\ pc = "idle"
    /\ run = 0
    /\ sorted_items = <<>>
    /\ packer = NoPacker
    /\ k = 0
    /\ results = <<>>
    /\ winner = <<>>
    /\ reasons = <<>>

\* A rerun of the script that does not calculate shows no result.
NoDisplay ==
    /\ pc' = "idle"
    /\ results' = <<>>
    /\ winner' = <<>>
    /\ reasons' = <<>>
    /\ UNCHANGED << run, sorted_items, packer, k >>

\* One of the sidebar's box inputs is changed (i: 1 length, 2 width,
\* 3 height): the script reruns with the new value.
SetBox(i, v) ==
    /\ pc = "idle"
    /\ v # box[i]
    /\ box' = [box EXCEPT ![i] = v]
    /\ UNCHANGED items_to_pack
    /\ NoDisplay

\* Another sidebar widget is edited (Item Name, L, W, H, Qty, Color): the
\* script reruns with no button pressed; list and box are as they were.
EditSidebar ==
    /\ pc = "idle"
    /\ UNCHANGED << items_to_pack, box >>
    /\ NoDisplay

\* "Add Item to List": qty copies of the entered item are appended.
AddItem(l, w, h, qty) ==
    /\ pc = "idle"
    /\ Len(items_to_pack) + qty <= MaxItems
    /\ items_to_pack' = items_to_pack \o [ i \in 1..qty |-> [l |-> l, w |-> w, h |-> h] ]
    /\ UNCHANGED box
    /\ NoDisplay

\* "Clear Entire List"
ClearList ==
    /\ pc = "idle"
    /\ items_to_pack' = <<>>
    /\ UNCHANGED box
    /\ NoDisplay

\* The list's swap button of row i: width and height are exchanged.
SwapItem(i) ==
    /\ pc = "idle"
    /\ i \in 1..Len(items_to_pack)
    /\ items_to_pack' = [items_to_pack EXCEPT ![i] =
                            [l |-> @.l, w |-> @.h, h |-> @.w]]
    /\ UNCHANGED box
    /\ NoDisplay

\* The list's delete button of row i: items_to_pack.pop(i).
RemoveItem(i) ==
    /\ pc = "idle"
    /\ i \in 1..Len(items_to_pack)
    /\ items_to_pack' = [ j \in 1..(Len(items_to_pack) - 1) |->
                            IF j < i THEN items_to_pack[j] ELSE items_to_pack[j + 1] ]
    /\ UNCHANGED box
    /\ NoDisplay

\* "Calculate Packing" with an empty list: a warning, nothing is run.
CalculateEmpty ==
    /\ pc = "idle"
    /\ items_to_pack = <<>>
    /\ UNCHANGED << items_to_pack, box >>
    /\ NoDisplay

\* "Calculate Packing" with items: strategy A's simulation starts.
Calculate ==
    /\ pc = "idle"
    /\ items_to_pack # <<>>
    /\ pc' = "sort"
    /\ run' = 1
    /\ results' = <<>>
    /\ winner' = <<>>
    /\ reasons' = <<>>
    /\ UNCHANGED << items_to_pack, box, sorted_items, packer, k >>

\* run_packing_simulation, step 1: sort the items by the strategy's key.
SortItems ==
    /\ pc = "sort"
    /\ sorted_items' = SortedItems(items_to_pack, run)
    /\ pc' = "setup"
    /\ UNCHANGED << items_to_pack, box, run, packer, k, results, winner, reasons >>

\* Step 2 left out: the packer of the previous attempt is used again.
SetupPackerStale ==
    /\ pc = "setup"
    /\ pc' = "add"
    /\ UNCHANGED << items_to_pack, box, run, sorted_items, packer, k, results,
                    winner, reasons >>

\* Step 2: a new packer with one new bin.
SetupPacker ==
    /\ pc = "setup"
    /\ packer' = NewPacker(box)
    /\ pc' = "add"
    /\ UNCHANGED << items_to_pack, box, run, sorted_items, k, results, winner, reasons >>

\* Step 3: one new Item per sorted item.
AddItems ==
    /\ pc = "add"
    /\ packer' = AddedItems(packer, sorted_items)
    /\ pc' = "pack"
    /\ UNCHANGED << items_to_pack, box, run, sorted_items, k, results, winner, reasons >>

\* Step 4, packer.pack(): the bin's and the items' numbers are formatted and
\* the items are sorted by volume, smallest first.
PackSort ==
    /\ pc = "pack"
    /\ packer' = Formatted(packer)
    /\ k' = 1
    /\ pc' = "place"
    /\ UNCHANGED << items_to_pack, box, run, sorted_items, results, winner, reasons >>

\* Step 4, packer.pack(): pack_to_bin of the next item.  packer.items[k] is
\* the object pack_to_bin rotates and positions.
PlaceItem ==
    /\ pc = "place"
    /\ k <= Len(packer.items)
    /\ LET r == PackToBin(packer.bin, packer.items[k])
       IN  packer' = [packer EXCEPT !.bin = r.bin, !.items[k] = r.item]
    /\ k' = k + 1
    /\ UNCHANGED << items_to_pack, box, pc, run, sorted_items, results, winner, reasons >>

\* Step 5 with a short circuit: no further strategy after a perfect attempt.
StatsShortCircuit ==
    /\ pc = "place"
    /\ k > Len(packer.items)
    /\ results' = Append(results,
            [ packer |-> packer,
              fail |-> Len(packer.bin.unfitted_items),
              vol |-> PackedVolume(packer.bin.items),
              name |-> StrategyName(run) ])
    /\ IF run < 3 /\ Len(packer.bin.unfitted_items) > 0
       THEN pc' = "sort" /\ run' = run + 1
       ELSE pc' = "compare" /\ run' = run
    /\ UNCHANGED << items_to_pack, box, sorted_items, packer, k, winner, reasons >>

\* Step 5: the attempt's statistics; the next strategy, or the comparison.
Stats ==
    /\ pc = "place"
    /\ k > Len(packer.items)
    /\ results' = Append(results,
            [ packer |-> packer,
              fail |-> Len(packer.bin.unfitted_items),
              vol |-> PackedVolume(packer.bin.items),
              name |-> StrategyName(run) ])
    /\ IF run < 3
       THEN pc' = "sort" /\ run' = run + 1
       ELSE pc' = "compare" /\ run' = run
    /\ UNCHANGED << items_to_pack, box, sorted_items, packer, k, winner, reasons >>

\* results.sort(...); the winner is results[0].
Compare ==
    /\ pc = "compare"
    /\ results' = SortResults(results)
    /\ winner' = << SortResults(results)[1] >>
    /\ pc' = "display"
    /\ UNCHANGED << items_to_pack, box, run, sorted_items, packer, k, reasons >>

\* The result panel: one reason per unfitted item of the winner.  The script
\* ends here, and with it run_packing_simulation's locals.
Display ==
    /\ pc = "display"
    /\ reasons' = [ i \in 1..Len(winner[1].packer.bin.unfitted_items) |->
                      analyze_failure(winner[1].packer.bin,
                                      winner[1].packer.bin.unfitted_items[i]) ]
    /\ pc' = "idle"
    /\ run' = 0
    /\ sorted_items' = <<>>
    /\ packer' = NoPacker
    /\ k' = 0
    /\ UNCHANGED << items_to_pack, box, results, winner >>

Next ==
    \/ \E i \in 1..3 : \E v \in BoxValues[i] : SetBox(i, v)
    \/ EditSidebar
    \/ \E d \in ItemShapes : \E qty \in 1..MaxQty : AddItem(d[1], d[2], d[3], qty)
    \/ ClearList
    \/ \E i \in 1..MaxItems : SwapItem(i)
    \/ \E i \in 1..MaxItems : RemoveItem(i)
    \/ CalculateEmpty
    \/ Calculate
    \/ SortItems
    \/ SetupPacker
    \/ AddItems
    \/ PackSort
    \/ PlaceItem
    \/ Stats
    \/ Compare
    \/ Display

Spec == Init /\ [][Next]_vars

\* ============================================================== properties
\* The bins of the state: the running attempt's, the finished attempts',
\* the winner's.
AllBins ==
    (IF pc \in { "place", "compare", "display" } THEN { packer.bin } ELSE {})
      \cup { results[i].packer.bin : i \in 1..Len(results) }
      \cup { winner[i].packer.bin : i \in 1..Len(winner) }

\* A Calculate has finished and its result is displayed.
Done == pc = "idle" /\ winner # <<>>

\* An attempt is running.
RunPcs == { "sort", "setup", "add", "pack", "place" }

Lo(it, a) == it.position[a]
Hi(it, a) == it.position[a] + GetDimension(it)[a]

\* The two boxes are apart on some axis (they may touch).
Apart(a, b) == \E ax \in 1..3 : Hi(a, ax) <= Lo(b, ax) \/ Hi(b, ax) <= Lo(a, ax)

\* Some rotation of the item is no larger than the bin on any axis.
FitsSomeRotation(bin, it) ==
    \E r \in 0..5 :
        LET d == GetDimension([it EXCEPT !.rotation_type = r])
        IN  d[1] <= bin.width /\ d[2] <= bin.height /\ d[3] <= bin.depth

Names(its) == { its[i].name : i \in 1..Len(its) }

\* The position of a strategy in the handler's enumeration.
Rank(name) ==
    CASE name = "Volume Sort" -> 1
      [] name = "Longest-Side Sort" -> 2
      [] name = "Area Sort" -> 3

\* Two doubles are equal.
FEq(a, b) == ~ FLess(a, b) /\ ~ FLess(b, a)

\* A single placement run on the items in their input order:
\* run_packing_simulation with a constant key, under which sorted() keeps the
\* list's order; the items are added to a new packer and packed.
InputOrderRun ==
    LET kept == Vals(SortKeyed([ i \in 1..Len(items_to_pack) |->
                                    [key |-> FZero, val |-> items_to_pack[i]] ], TRUE))
        p == Formatted(AddedItems(NewPacker(box), kept))
    IN  PackAll(p.bin, p.items)

\* C1: in every state of a run, and of its result, no two placed items of a
\* bin overlap: each pair is apart on at least one axis.
C1_NoOverlap ==
    \A b \in AllBins :
        \A i, j \in 1..Len(b.items) : i < j => Apart(b.items[i], b.items[j])

\* C1 witness: two items are placed side by side and a third, which would fit
\* the empty bin, was refused at every pivot.
C1_Witness ==
    /\ pc = "place"
    /\ Len(packer.bin.items) >= 2
    /\ \E i \in 1..Len(packer.bin.unfitted_items) :
          FitsSomeRotation(packer.bin, packer.bin.unfitted_items[i])

\* C2: every placed item lies inside its bin on all three axes, at a
\* non-negative anchor, in one of the six permutations of its dimensions.
C2_InsideContainer ==
    \A b \in AllBins :
        \A i \in 1..Len(b.items) :
            LET it == b.items[i]
                d == GetDimension(it)
            IN  /\ \A ax \in 1..3 : Lo(it, ax) >= 0
                /\ Hi(it, 1) <= b.width
                /\ Hi(it, 2) <= b.height
                /\ Hi(it, 3) <= b.depth
                /\ d \in { << it.width, it.height, it.depth >>,
                           << it.height, it.width, it.depth >>,
                           << it.height, it.depth, it.width >>,
                           << it.depth, it.height, it.width >>,
                           << it.depth, it.width, it.height >>,
                           << it.width, it.depth, it.height >> }

\* C2 witness: an item is placed rotated, away from the origin, and reaches
\* the bin's far side on the axis it was pushed along.
C2_Witness ==
    \E i \in 1..Len(packer.bin.items) :
        LET it == packer.bin.items[i]
        IN  /\ it.rotation_type # 0
            /\ it.position # START_POSITION
            /\ \/ it.position[1] > 0 /\ Hi(it, 1) = packer.bin.width
               \/ it.position[2] > 0 /\ Hi(it, 2) = packer.bin.height
               \/ it.position[3] > 0 /\ Hi(it, 3) = packer.bin.depth

\* C4: during a run the items tried so far are, each exactly once, either
\* placed or unfitted; a finished attempt has tried every item of the list.
C4_PlacedXorUnplaced ==
    /\ pc = "place" =>
          LET tried == SubSeq(packer.items, 1, k - 1)
              b == packer.bin
          IN  /\ Len(b.items) + Len(b.unfitted_items) = k - 1
              /\ Names(b.items) \cup Names(b.unfitted_items) = Names(tried)
              /\ Names(b.items) \cap Names(b.unfitted_items) = {}
              /\ Cardinality(Names(tried)) = k - 1
    /\ \A i \in 1..Len(results) :
          LET b == results[i].packer.bin
          IN  /\ Len(b.items) + Len(b.unfitted_items) = Len(items_to_pack)
              /\ Names(b.items) \cup Names(b.unfitted_items)
                    = 0..(Len(items_to_pack) - 1)
              /\ Names(b.items) \cap Names(b.unfitted_items) = {}

\* C4 witness: a finished attempt in which an item was left unfitted and an
\* item tried after it was placed.
C4_Witness ==
    \E i \in 1..Len(results) :
        LET p == results[i].packer
        IN  \E a, b \in 1..Len(p.items) :
                /\ a < b
                /\ p.items[a].name \in Names(p.bin.unfitted_items)
                /\ p.items[b].name \in Names(p.bin.items)

\* C5: the displayed winner places at least as many items as a single run on
\* the items in their input order.
C5_AtLeastInputOrder ==
    Done => Len(winner[1].packer.bin.items) >= Len(InputOrderRun.items)

\* C7 as stated: once an attempt has finished with no unfitted item, no
\* further attempt is running.
C7_ShortCircuit ==
    ~ (pc \in RunPcs /\ \E i \in 1..Len(results) : results[i].fail = 0)

\* C7 as amended: all three strategies are always run, whatever the earlier
\* ones placed, and the winner has no unfitted item whenever one of the three
\* attempts has none.
C7_AllThreeRun ==
    winner # <<>> =>
        /\ Len(results) = 3
        /\ { results[i].name : i \in 1..3 }
              = { "Volume Sort", "Longest-Side Sort", "Area Sort" }
        /\ (\E i \in 1..3 : results[i].fail = 0) => winner[1].fail = 0

\* C7 witness: the first strategy placed every item, the other two were run
\* all the same, and the winner has no unfitted item.
C7_Witness ==
    /\ Done
    /\ Len(results) = 3
    /\ \E i \in 1..3 : results[i].name = "Volume Sort" /\ results[i].fail = 0
    /\ winner[1].fail = 0

\* C8: no attempt has fewer unfitted items than the winner, none with as many
\* has more packed volume, and of the attempts with the winner's exact score
\* the winner is the one enumerated first.
C8_BestAndFirst ==
    winner # <<>> =>
        LET w == winner[1]
        IN  /\ \E i \in 1..Len(results) : results[i] = w
            /\ \A i \in 1..Len(results) :
                  /\ results[i].fail >= w.fail
                  /\ results[i].fail = w.fail => ~ FLess(w.vol, results[i].vol)
                  /\ (results[i].fail = w.fail /\ FEq(results[i].vol, w.vol))
                        => Rank(w.name) <= Rank(results[i].name)

\* C8 witness: the winner shares its exact score with a later strategy whose
\* layout differs, and a third attempt has a worse score.
C8_Witness ==
    /\ Done
    /\ \E i, j \in 1..3 :
          /\ results[i].name # winner[1].name
          /\ results[i].fail = winner[1].fail
          /\ FEq(results[i].vol, winner[1].vol)
          /\ results[i].packer.bin # winner[1].packer.bin
          /\ \/ results[j].fail > winner[1].fail
             \/ results[j].fail = winner[1].fail
                /\ FLess(results[j].vol, winner[1].vol)

\* C9: every displayed reason is "too large" exactly when no rotation of the
\* item fits the bin, which is when the item is not placed in the empty bin
\* either, and "not enough remaining space" exactly when some rotation fits.
C9_DiagnosisExact ==
    Done =>
        LET b == winner[1].packer.bin
        IN  /\ Len(reasons) = Len(b.unfitted_items)
            /\ \A i \in 1..Len(reasons) :
                  LET u == b.unfitted_items[i]
                      fresh == Item(u.name, u.width, u.height, u.depth, u.weight)
                      alone == PackToBin(Bin(b.width, b.height, b.depth, b.max_weight),
                                         fresh).bin
                  IN  /\ reasons[i] = TooLarge <=> ~ FitsSomeRotation(b, u)
                      /\ reasons[i] = NoSpace <=> FitsSomeRotation(b, u)
                      /\ reasons[i] = TooLarge <=> alone.items = <<>>

\* C9 witness: both reasons are displayed, one of them for an item whose
\* dimensions as entered are not in ascending order.
C9_Witness ==
    /\ Done
    /\ \E i, j \in 1..Len(reasons) :
          /\ reasons[i] = TooLarge
          /\ reasons[j] = NoSpace
          /\ LET u == winner[1].packer.bin.unfitted_items[j]
             IN  u.width > u.height \/ u.height > u.depth

\* An attempt's packer before packing: an empty bin, and one item per list
\* entry, each unrotated at the start position.
FreshPacker(p) ==
    /\ p.bin.items = <<>>
    /\ p.bin.unfitted_items = <<>>
    /\ Len(p.items) = Len(items_to_pack)
    /\ \A i \in 1..Len(p.items) :
          p.items[i].rotation_type = 0 /\ p.items[i].position = START_POSITION

\* C10: every attempt starts packing from a fresh packer, and no step of the
\* Calculate handler changes the session's item list.
C10_AttemptsIsolated ==
    [][ /\ pc' = "pack" => FreshPacker(packer)'
        /\ (pc # "idle" \/ pc' # "idle") => items_to_pack' = items_to_pack ]_vars

\* C10 witness: the third attempt is about to pack while an earlier attempt's
\* result holds a rotated item placed away from the origin.
C10_Witness ==
    /\ pc = "pack"
    /\ run = 3
    /\ \E i \in 1..Len(results) :
          \E j \in 1..Len(results[i].packer.bin.items) :
              LET it == results[i].packer.bin.items[j]
              IN  it.rotation_type # 0 /\ it.position # START_POSITION

====
